---- MODULE Spec2Model ----
(***************************************************************************)
(* A model of the canary router's request pipeline                         *)
(* (canaryrouter/server.go): the X-Canary override, the quota pre-check,   *)
(* the sidecar call with its body duplication, the admission on the canary *)
(* bucket, the dispatch to the main or canary proxy, and the deferred      *)
(* panic guard.  One goroutine per request; the requests share only the    *)
(* canary bucket.  Strings the code formats or slices are sequences of     *)
(* tokens, so that formatting and trimming are computed, not assumed.      *)
(***************************************************************************)
EXTENDS Integers, Sequences, FiniteSets, TLC

\* ------------------------------------------------------------------ bounds

\* Number of requests handled concurrently.
NumReqs == 2

\* Largest configured CircuitBreaker.RequestLimitCanary (0 = no bucket).
MaxLimit == 1

\* ------------------------------------------------------- program constants

\* const StatusSidecarError = http.StatusServiceUnavailable
StatusSidecarError == 503

\* The sidecar's "route to main" / "route to canary" status codes: constants
\* of the package declared outside server.go, two distinct codes other than
\* StatusSidecarError.
StatusCodeMain == 200

StatusCodeCanary == 204

\* http.StatusInternalServerError, the code the panic guard answers with.
StatusInternalServerError == 500

\* http.StatusOK: what a recorder or a response writer holds when no other
\* status was written, and what the backends answer here.
StatusOK == 200

\* --------------------------------------------------------------- strings

\* strconv.Itoa / the %d verb of fmt.Sprintf, on the status codes in use.
Itoa(n) ==
    CASE n = 0   -> "0"
      [] n = 200 -> "200"
      [] n = 204 -> "204"
      [] n = 404 -> "404"
      [] n = 500 -> "500"
      [] n = 503 -> "503"

\* strings.Contains on token sequences: tok occurs in s.
Contains(s, tok) == \E i \in 1..Len(s) : s[i] = tok

\* strings.HasPrefix.
HasPrefix(s, prefix) ==
    /\ Len(prefix) <= Len(s)
    /\ SubSeq(s, 1, Len(prefix)) = prefix

\* strings.TrimPrefix: s without the leading prefix, s itself when it does
\* not start with it.
TrimPrefix(s, prefix) ==
    IF HasPrefix(s, prefix) THEN SubSeq(s, Len(prefix) + 1, Len(s)) ELSE s

\* A buggy trim that drops the first len(prefix) bytes whatever they are.
TrimPrefixBlind(reqPath, prefix) ==
    IF Len(prefix) <= Len(reqPath)
    THEN SubSeq(reqPath, Len(prefix) + 1, Len(reqPath))
    ELSE reqPath

trimRequestPathPrefix(reqPath, prefix) == TrimPrefix(reqPath, prefix)

\* strconv.ParseBool: the values it accepts.
ParseBool(str) ==
    IF str \in {"1", "t", "T", "TRUE", "true", "True"}
    THEN [val |-> TRUE, err |-> FALSE]
    ELSE IF str \in {"0", "f", "F", "FALSE", "false", "False"}
         THEN [val |-> FALSE, err |-> FALSE]
         ELSE [val |-> FALSE, err |-> TRUE]

\* A conversion that hands every value to strconv.ParseBool.
convertToBoolLax(boolStr) == ParseBool(boolStr)

\* A conversion that never recognises a value.
convertToBoolNever(boolStr) == [val |-> FALSE, err |-> TRUE]

convertToBool(boolStr) ==
    IF boolStr = "true" \/ boolStr = "false"
    THEN ParseBool(boolStr)
    ELSE [val |-> FALSE, err |-> TRUE]

\* ------------------------------------------------------------ request body

\* ioutil.ReadAll(io.TeeReader(req.Body, &bodyBuffer)): the bytes of data are
\* read one by one, each copied to the buffer as it is read, until EOF or
\* until the read fails (fails, after `at` bytes).  out is what ReadAll
\* returns, buf what the tee has written to bodyBuffer.
RECURSIVE TeeReadAll(_, _, _, _, _)
TeeReadAll(data, fails, at, out, buf) ==
    IF fails /\ Len(out) = at
    THEN [out |-> out, buf |-> buf, err |-> TRUE]
    ELSE IF Len(out) = Len(data)
         THEN [out |-> out, buf |-> buf, err |-> FALSE]
         ELSE TeeReadAll(data, fails, at,
                         Append(out, data[Len(out) + 1]),
                         Append(buf, data[Len(out) + 1]))

\* A restore that leaves req.Body the drained reader it was after ReadAll.
RestoreBodyDrained(bodyBuffer) == <<>>

\* The deferred req.Body = ioutil.NopCloser(&bodyBuffer): what req.Body
\* yields afterwards is what the buffer holds.
RestoreBody(bodyBuffer) == bodyBuffer

\* ---------------------------------------------------------- sidecar proxy

\* httptest.NewRecorder().
NewRecorder == [Code |-> StatusOK, Body |-> <<>>]

\* sidecarProxy.ErrorHandler: status 503 and the error text as body.
SidecarErrorHandler(recorder, errText) ==
    [Code |-> StatusSidecarError, Body |-> recorder.Body \o errText]

\* s.sidecarProxy.ServeHTTP(recorder, outreq): the sidecar's answer, or the
\* ErrorHandler's on a transport failure, lands in the recorder.
SidecarServeHTTP(recorder, answer) ==
    IF answer.transportError
    THEN SidecarErrorHandler(recorder, answer.text)
    ELSE [Code |-> answer.code, Body |-> recorder.Body \o answer.text]

\* What the sidecar (or the transport towards it) may do with one call.
SidecarAnswers ==
    {[transportError |-> FALSE, code |-> c, text |-> <<"sidecar says">>] :
        c \in {StatusCodeMain, StatusCodeCanary, 404}}
    \cup {[transportError |-> FALSE, code |-> StatusSidecarError,
           text |-> <<"timeout">>],
          [transportError |-> TRUE, code |-> 0,
           text |-> <<"connection refused">>]}

NoAnswer == [transportError |-> FALSE, code |-> 0, text |-> <<>>]

NoError == [isErr |-> FALSE, text |-> <<>>]

\* A callSidecar that treats the sidecar-error status like any other code.
callSidecarIgnoreError(reqBody, fails, at, answer) ==
    LET rd       == TeeReadAll(reqBody, fails, at, <<>>, <<>>)
        recorder == SidecarServeHTTP(NewRecorder, answer)
    IN  IF rd.err
        THEN [statusCode |-> 0, err |-> [isErr |-> TRUE, text |-> <<"read error">>],
              reqBody |-> RestoreBody(rd.buf), called |-> FALSE, outBody |-> <<>>]
        ELSE [statusCode |-> recorder.Code, err |-> NoError,
              reqBody |-> RestoreBody(rd.buf), called |-> TRUE, outBody |-> rd.out]

\* A callSidecar whose restore is a plain statement after the read instead
\* of a deferred one: on a failed read req.Body stays the original reader,
\* with what it had not yet given.
callSidecarRestoreNotDeferred(reqBody, fails, at, answer) ==
    LET rd       == TeeReadAll(reqBody, fails, at, <<>>, <<>>)
        recorder == SidecarServeHTTP(NewRecorder, answer)
    IN  IF rd.err
        THEN [statusCode |-> 0, err |-> [isErr |-> TRUE, text |-> <<"read error">>],
              reqBody |-> SubSeq(reqBody, Len(rd.out) + 1, Len(reqBody)),
              called |-> FALSE, outBody |-> <<>>]
        ELSE IF recorder.Code = StatusSidecarError
             THEN [statusCode |-> recorder.Code,
                   err |-> [isErr |-> TRUE, text |-> recorder.Body],
                   reqBody |-> RestoreBody(rd.buf), called |-> TRUE,
                   outBody |-> rd.out]
             ELSE [statusCode |-> recorder.Code, err |-> NoError,
                   reqBody |-> RestoreBody(rd.buf), called |-> TRUE,
                   outBody |-> rd.out]

\* callSidecar: duplicate the body, replay the request to the sidecar into a
\* recorder, restore req.Body (deferred), return the recorded code, with an
\* error carrying the recorded body when the code is StatusSidecarError.
callSidecar(reqBody, fails, at, answer) ==
    LET rd       == TeeReadAll(reqBody, fails, at, <<>>, <<>>)
        recorder == SidecarServeHTTP(NewRecorder, answer)
    IN  IF rd.err
        THEN [statusCode |-> 0, err |-> [isErr |-> TRUE, text |-> <<"read error">>],
              reqBody |-> RestoreBody(rd.buf), called |-> FALSE, outBody |-> <<>>]
        ELSE IF recorder.Code = StatusSidecarError
             THEN [statusCode |-> recorder.Code,
                   err |-> [isErr |-> TRUE, text |-> recorder.Body],
                   reqBody |-> RestoreBody(rd.buf), called |-> TRUE,
                   outBody |-> rd.out]
             ELSE [statusCode |-> recorder.Code, err |-> NoError,
                   reqBody |-> RestoreBody(rd.buf), called |-> TRUE,
                   outBody |-> rd.out]

\* ----------------------------------------------------------- canary bucket

\* server.canaryBucket when no limit is configured: nil.
NilBucket == [exists |-> FALSE, capacity |-> 0, availableTokens |-> 0]

\* ratelimit.NewBucket(infinityDuration, capacity): a full bucket whose fill
\* interval never elapses.
NewBucket(capacity) ==
    [exists |-> TRUE, capacity |-> capacity, availableTokens |-> capacity]

\* A construction that makes a bucket whatever the configured limit.
NewCanaryBucketAlways(requestLimitCanary) == NewBucket(requestLimitCanary)

\* NewServer's last step: a bucket only when RequestLimitCanary is not 0.
NewCanaryBucket(requestLimitCanary) ==
    IF requestLimitCanary # 0 THEN NewBucket(requestLimitCanary) ELSE NilBucket

IsCanaryLimited(bucket) == bucket.exists

\* A bucket whose fill interval elapses between any two uses: it is full again.
adjustRefilled(bucket) == [bucket EXCEPT !.availableTokens = bucket.capacity]

\* The bucket's adjustment for the ticks elapsed since the last use, made by
\* every operation on it: with infinityDuration as the fill interval no tick
\* ever elapses and nothing is added.
adjustAvailableTokens(bucket) == bucket

\* Bucket.Available().
Available(bucket) == adjustAvailableTokens(bucket).availableTokens

Min(a, b) == IF a <= b THEN a ELSE b

\* A take that hands out the tokens without looking at what is left.
TakeAvailableUnchecked(bucket, count) ==
    [taken |-> count,
     bucket |-> [bucket EXCEPT !.availableTokens = @ - count]]

\* A take that hands out tokens and forgets to remove them.
TakeAvailableNoDecrement(bucket, count) ==
    IF count <= 0 \/ bucket.availableTokens <= 0
    THEN [taken |-> 0, bucket |-> bucket]
    ELSE [taken |-> Min(count, bucket.availableTokens), bucket |-> bucket]

\* Bucket.TakeAvailable(count), under the bucket's mutex: takes
\* min(count, available) tokens, none when nothing is available.
TakeAvailable(bucket, count) ==
    LET b == adjustAvailableTokens(bucket)
    IN  IF count <= 0 \/ b.availableTokens <= 0
        THEN [taken |-> 0, bucket |-> b]
        ELSE [taken |-> Min(count, b.availableTokens),
              bucket |-> [b EXCEPT
                            !.availableTokens = @ - Min(count, b.availableTokens)]]

\* -------------------------------------------------------- response writer

\* The client's http.ResponseWriter before anything is written.
NewResponseWriter == [wroteHeader |-> FALSE, status |-> 0, body |-> <<>>]

\* ResponseWriter.WriteHeader: the first call fixes the status, a later one
\* is superfluous and changes nothing.
WriteHeader(w, code) ==
    IF w.wroteHeader THEN w
    ELSE [w EXCEPT !.wroteHeader = TRUE, !.status = code]

\* ResponseWriter.Write: writes the header with 200 first when none was
\* written, then appends to the body.
Write(w, data) ==
    LET h == WriteHeader(w, StatusOK)
    IN  [h EXCEPT !.body = @ \o data]

\* http.Error(w, msg, code): the header with code, then the message.
HttpError(w, msg, code) == Write(WriteHeader(w, code), msg \o <<"\n">>)

\* mainProxy / canaryProxy .ServeHTTP: the backend's status and body are
\* copied to the client.
ProxyResponse(target) == <<target, "response">>

\* The proxy has written the backend's header, the body not yet (whole).
ProxyWriteHeader(w) == WriteHeader(w, StatusOK)

ProxyServeHTTP(w, target) == Write(ProxyWriteHeader(w), ProxyResponse(target))

\* ------------------------------------------------------------- panic guard

\* The values a handler may panic with: a string, an error, anything else.
Faults ==
    {[kind |-> k, desc |-> "boom"] : k \in {"string", "error", "other"}}

NoFault == [kind |-> "none", desc |-> ""]

\* The deferred function's switch on the recovered value: err.Error().
RecoveredMessage(fault) ==
    CASE fault.kind = "string" -> <<fault.desc>>
      [] fault.kind = "error"  -> <<fault.desc>>
      [] OTHER                 -> <<"Unknown error: ", fault.desc>>

\* viaProxy's deferred function: recover(), log, http.Error(w, ..., 500).
PanicGuard(w, fault) ==
    [w       |-> HttpError(w, RecoveredMessage(fault), StatusInternalServerError),
     escaped |-> FALSE]

\* ------------------------------------------------------------------ state

VARIABLES
    config,        \* Server.config: SidecarURL, RequestLimitCanary, TrimPrefix
    canaryBucket,  \* Server.canaryBucket, shared by all requests
    req            \* per request: the goroutine's position and its locals

vars == <<config, canaryBucket, req>>

Reqs == 1..NumReqs

\* Values of the X-Canary header ("" is also what Header.Get gives when the
\* header is absent).
Headers == {"true", "false", "", "TRUE", "1"}

\* Request bodies, as byte sequences.
Bodies == {<<>>, <<"x">>, <<"x", "y">>}

ApiPrefix == <<"/", "a", "p", "i">>

\* Inbound URL paths: /api/v1, /v1, /apiv1.
Paths ==
    {ApiPrefix \o <<"/", "v", "1">>, <<"/", "v", "1">>, ApiPrefix \o <<"v", "1">>,
     <<"/", "v", "1">> \o ApiPrefix, ApiPrefix \o ApiPrefix}

\* A request as the server hands it to the handler.
NewRequest(xCanaryVal, body, path, panicValue, active) ==
    [pc               |-> IF active THEN "start" ELSE "absent",
     xCanaryVal       |-> xCanaryVal,
     panicValue       |-> panicValue, \* what a fault in its handling panics with
     sent             |-> body,       \* what the client sent
     reqBody          |-> body,       \* what req.Body yields when read
     inPath           |-> path,       \* the inbound URL path
     urlPath          |-> path,       \* req.URL.Path
     reasonSet        |-> FALSE,      \* setRoutingReason was applied
     reason           |-> <<>>,
     route            |-> "none",     \* serveMain or serveCanary was chosen
     statusCode       |-> 0,
     err              |-> NoError,
     sidecarCalls     |-> 0,
     sidecarGot       |-> <<>>,       \* the body the sidecar was sent
     sidecarAnswer    |-> NoAnswer,   \* what the sidecar call met
     readFailed       |-> FALSE,      \* reading req.Body failed
     admitted         |-> FALSE,      \* took a token from the bucket
     forwards         |-> <<>>,       \* the proxies the request was given to
     backendBody      |-> <<>>,
     backendPath      |-> <<>>,
     tagTarget        |-> "none",     \* recordMetricTarget's target tag
     w                |-> NewResponseWriter,
     fault            |-> NoFault,
     faultAt          |-> "none",
     escaped          |-> FALSE,
     startedExhausted |-> FALSE]      \* the bucket was empty at entry

isSidecarProvided(cfg) == cfg.SidecarURL # ""

Configs(prefixes) ==
    [SidecarURL : {"", "http://sidecar"},
     RequestLimitCanary : 0..MaxLimit,
     TrimPrefix : prefixes]

\* The server after NewServer, NumReqs requests about to be handled.
Init ==
    /\ config \in Configs({ApiPrefix})
    /\ canaryBucket = NewCanaryBucket(config.RequestLimitCanary)
    /\ req \in [Reqs -> {NewRequest(h, <<"x">>, ApiPrefix \o <<"/", "v", "1">>,
                                      [kind |-> "error", desc |-> "boom"], TRUE) :
                            h \in {"true", "false", ""}}]

\* One request with every header, body and path, on a server whose bucket
\* earlier requests may have used up in part or whole.
InitOne ==
    /\ config \in Configs({ApiPrefix, <<>>})
    /\ \E used \in 0..MaxLimit :
          /\ used <= config.RequestLimitCanary
          /\ canaryBucket =
                [NewCanaryBucket(config.RequestLimitCanary) EXCEPT
                    !.availableTokens = @ - used]
    /\ \E h \in Headers, b \in Bodies, p \in Paths, f \in Faults :
          req = [r \in Reqs |-> NewRequest(h, b, p, f, r = 1)]

\* ---------------------------------------------------------------- routing

\* setRoutingReason(req, reason, args...): the formatted reason is attached.
setRoutingReason(q, reason) == [q EXCEPT !.reasonSet = TRUE, !.reason = reason]

ReasonHeader(xCanaryVal) == <<"Routed via X-Canary header value: ", xCanaryVal>>

ReasonLimit == <<"Canary ", "limit reached">>

ReasonCode(statusCode) == <<"Sidecar returns status code ", Itoa(statusCode)>>

ReasonCodeLimit(statusCode) ==
    <<"Sidecar returns status code ", Itoa(statusCode), ", but canary ",
      "limit reached">>

ReasonNonStandard(statusCode) ==
    <<"Sidecar returns non standard status code ", Itoa(statusCode)>>

\* A handler that uses viaProxyWithSidecar whether or not a sidecar is
\* configured.
viaProxyAlwaysSidecar(q, cfg, bucket) ==
    LET q1 == [q EXCEPT
                 !.urlPath = trimRequestPathPrefix(q.urlPath, cfg.TrimPrefix),
                 !.startedExhausted =
                     IsCanaryLimited(bucket) /\ bucket.availableTokens <= 0]
        xCanary == convertToBool(q.xCanaryVal)
    IN  IF ~xCanary.err
        THEN [setRoutingReason(q1, ReasonHeader(q.xCanaryVal)) EXCEPT
                 !.pc = "serve",
                 !.route = IF xCanary.val THEN "canary" ELSE "main"]
        ELSE [q1 EXCEPT !.pc = "precheck"]

\* The handler viaProxy returns, up to the choice of what serves the request:
\* path trimming, then the X-Canary override, else the handler chosen at
\* construction (serveMain without a sidecar, else viaProxyWithSidecar).
viaProxy(q, cfg, bucket) ==
    LET q1 == [q EXCEPT
                 !.urlPath = trimRequestPathPrefix(q.urlPath, cfg.TrimPrefix),
                 !.startedExhausted =
                     IsCanaryLimited(bucket) /\ bucket.availableTokens <= 0]
        xCanary == convertToBool(q.xCanaryVal)
    IN  IF ~xCanary.err
        THEN [setRoutingReason(q1, ReasonHeader(q.xCanaryVal)) EXCEPT
                 !.pc = "serve",
                 !.route = IF xCanary.val THEN "canary" ELSE "main"]
        ELSE IF ~isSidecarProvided(cfg)
             THEN [q1 EXCEPT !.pc = "serve", !.route = "main"]
             ELSE [q1 EXCEPT !.pc = "precheck"]

\* A pre-check that never stops a request.
preCheckSkipped(q, bucket) == [q EXCEPT !.pc = "sidecar"]

\* viaProxyWithSidecar, first statement: with a bucket that has nothing
\* available the request goes to main and the sidecar is not called.
preCheck(q, bucket) ==
    IF IsCanaryLimited(bucket) /\ Available(bucket) <= 0
    THEN [setRoutingReason(q, ReasonLimit) EXCEPT !.pc = "serve", !.route = "main"]
    ELSE [q EXCEPT !.pc = "sidecar"]

\* A sidecar call that serves the sidecar's answer into the client's writer
\* as well as into the recorder.
sidecarStepToClient(q, fails, at, answer) ==
    LET res      == callSidecar(q.reqBody, fails, at, answer)
        recorded == SidecarServeHTTP(NewRecorder, answer)
    IN  [q EXCEPT
           !.pc = "decide",
           !.statusCode = res.statusCode,
           !.err = res.err,
           !.reqBody = res.reqBody,
           !.readFailed = fails,
           !.sidecarCalls = IF res.called THEN @ + 1 ELSE @,
           !.sidecarGot = res.outBody,
           !.sidecarAnswer = IF res.called THEN answer ELSE @,
           !.w = IF res.called
                 THEN Write(WriteHeader(q.w, recorded.Code), recorded.Body)
                 ELSE @]

\* statusCode, err := s.callSidecar(req)
sidecarStep(q, fails, at, answer) ==
    LET res == callSidecar(q.reqBody, fails, at, answer)
    IN  [q EXCEPT
           !.pc = "decide",
           !.statusCode = res.statusCode,
           !.err = res.err,
           !.reqBody = res.reqBody,
           !.readFailed = fails,
           !.sidecarCalls = IF res.called THEN @ + 1 ELSE @,
           !.sidecarGot = res.outBody,
           !.sidecarAnswer = IF res.called THEN answer ELSE @]

\* A switch whose default branch sends the request to canary.
decideDefaultCanary(q, bucket) ==
    IF q.err.isErr
    THEN [q |-> [setRoutingReason(q, q.err.text) EXCEPT !.pc = "serve", !.route = "main"],
          bucket |-> bucket]
    ELSE IF q.statusCode = StatusCodeMain
    THEN [q |-> [setRoutingReason(q, ReasonCode(q.statusCode)) EXCEPT
                    !.pc = "serve", !.route = "main"],
          bucket |-> bucket]
    ELSE IF q.statusCode = StatusCodeCanary
    THEN IF IsCanaryLimited(bucket)
         THEN LET take == TakeAvailable(bucket, 1)
              IN  IF take.taken = 0
                  THEN [q |-> [setRoutingReason(q, ReasonCodeLimit(q.statusCode)) EXCEPT
                                  !.pc = "serve", !.route = "main"],
                        bucket |-> take.bucket]
                  ELSE [q |-> [setRoutingReason(q, ReasonCode(q.statusCode)) EXCEPT
                                  !.pc = "serve", !.route = "canary",
                                  !.admitted = TRUE],
                        bucket |-> take.bucket]
         ELSE [q |-> [setRoutingReason(q, ReasonCode(q.statusCode)) EXCEPT
                         !.pc = "serve", !.route = "canary"],
               bucket |-> bucket]
    ELSE [q |-> [setRoutingReason(q, ReasonNonStandard(q.statusCode)) EXCEPT
                    !.pc = "serve", !.route = "canary"],
          bucket |-> bucket]

\* A decision that takes a token before looking at the sidecar's result.
decideTakeFirst(q, bucket) ==
    LET take == IF IsCanaryLimited(bucket)
                THEN TakeAvailable(bucket, 1)
                ELSE [taken |-> 1, bucket |-> bucket]
    IN  IF q.err.isErr
        THEN [q |-> [setRoutingReason(q, q.err.text) EXCEPT
                        !.pc = "serve", !.route = "main"],
              bucket |-> take.bucket]
        ELSE IF q.statusCode = StatusCodeMain
        THEN [q |-> [setRoutingReason(q, ReasonCode(q.statusCode)) EXCEPT
                        !.pc = "serve", !.route = "main"],
              bucket |-> take.bucket]
        ELSE IF q.statusCode = StatusCodeCanary
        THEN IF take.taken = 0
             THEN [q |-> [setRoutingReason(q, ReasonCodeLimit(q.statusCode)) EXCEPT
                             !.pc = "serve", !.route = "main"],
                   bucket |-> take.bucket]
             ELSE [q |-> [setRoutingReason(q, ReasonCode(q.statusCode)) EXCEPT
                             !.pc = "serve", !.route = "canary",
                             !.admitted = IsCanaryLimited(bucket)],
                   bucket |-> take.bucket]
        ELSE [q |-> [setRoutingReason(q, ReasonNonStandard(q.statusCode)) EXCEPT
                        !.pc = "serve", !.route = "main"],
              bucket |-> take.bucket]

\* An admission that sends the request to canary without asking the bucket.
decideNoAdmission(q, bucket) ==
    IF q.err.isErr
    THEN [q |-> [setRoutingReason(q, q.err.text) EXCEPT !.pc = "serve", !.route = "main"],
          bucket |-> bucket]
    ELSE IF q.statusCode = StatusCodeMain
    THEN [q |-> [setRoutingReason(q, ReasonCode(q.statusCode)) EXCEPT
                    !.pc = "serve", !.route = "main"],
          bucket |-> bucket]
    ELSE IF q.statusCode = StatusCodeCanary
         THEN [q |-> [setRoutingReason(q, ReasonCode(q.statusCode)) EXCEPT
                         !.pc = "serve", !.route = "canary"],
               bucket |-> bucket]
         ELSE [q |-> [setRoutingReason(q, ReasonNonStandard(q.statusCode)) EXCEPT
                         !.pc = "serve", !.route = "main"],
               bucket |-> bucket]

\* viaProxyWithSidecar after the sidecar call: the error branch, then the
\* switch on the status code, with the admission on the bucket in the canary
\* case (TakeAvailable is called only when a bucket exists).
decide(q, bucket) ==
    IF q.err.isErr
    THEN [q |-> [setRoutingReason(q, q.err.text) EXCEPT !.pc = "serve", !.route = "main"],
          bucket |-> bucket]
    ELSE IF q.statusCode = StatusCodeMain
    THEN [q |-> [setRoutingReason(q, ReasonCode(q.statusCode)) EXCEPT
                    !.pc = "serve", !.route = "main"],
          bucket |-> bucket]
    ELSE IF q.statusCode = StatusCodeCanary
    THEN IF IsCanaryLimited(bucket)
         THEN LET take == TakeAvailable(bucket, 1)
              IN  IF take.taken = 0
                  THEN [q |-> [setRoutingReason(q, ReasonCodeLimit(q.statusCode)) EXCEPT
                                  !.pc = "serve", !.route = "main"],
                        bucket |-> take.bucket]
                  ELSE [q |-> [setRoutingReason(q, ReasonCode(q.statusCode)) EXCEPT
                                  !.pc = "serve", !.route = "canary",
                                  !.admitted = TRUE],
                        bucket |-> take.bucket]
         ELSE [q |-> [setRoutingReason(q, ReasonCode(q.statusCode)) EXCEPT
                         !.pc = "serve", !.route = "canary"],
               bucket |-> bucket]
    ELSE [q |-> [setRoutingReason(q, ReasonNonStandard(q.statusCode)) EXCEPT
                    !.pc = "serve", !.route = "main"],
          bucket |-> bucket]

\* The proxy reads req.Body to the end and forwards it with req.URL.Path.
forward(q) ==
    [q EXCEPT
       !.forwards = Append(@, q.route),
       !.backendBody = q.reqBody,
       !.reqBody = <<>>,
       !.backendPath = q.urlPath]

\* A dispatch without the return after the override: the request served on
\* the header's word goes on to the main proxy as well.
serveFallThrough(q) ==
    LET first == [forward(q) EXCEPT
                    !.w = ProxyServeHTTP(q.w, q.route),
                    !.tagTarget = q.route,
                    !.pc = "done"]
    IN  IF q.xCanaryVal \in {"true", "false"}
        THEN [forward([first EXCEPT !.route = "main"]) EXCEPT
                !.w = ProxyServeHTTP(first.w, "main"),
                !.tagTarget = "main"]
        ELSE first

\* serveMain / serveCanary: the proxy serves the request, then the deferred
\* recordMetricTarget tags the target.
serve(q) ==
    [forward(q) EXCEPT
       !.w = ProxyServeHTTP(q.w, q.route),
       !.tagTarget = q.route,
       !.pc = "done"]

\* Where in the pipeline a fault may be raised: phase tells, within the
\* serving function, whether the proxy has not yet answered ("before"), has
\* written the backend's header ("during"), or has finished, the fault being
\* raised by the metric recording ("metric").
Phases(pc) == IF pc = "serve" THEN {"before", "during", "metric"} ELSE {"before"}

\* The request's state when the fault reaches the guard: the deferred calls
\* between the fault and the guard have run.
unwind(q, phase) ==
    IF q.pc # "serve" \/ phase = "before"
    THEN [q EXCEPT !.tagTarget = IF q.pc = "serve" THEN q.route ELSE @]
    ELSE IF phase = "during"
         THEN [forward(q) EXCEPT !.w = ProxyWriteHeader(q.w), !.tagTarget = q.route]
         ELSE [forward(q) EXCEPT !.w = ProxyServeHTTP(q.w, q.route)]

\* A fault raised in the handler, up to the end of the deferred guard.
panic(q, phase, fault) ==
    LET u == unwind(q, phase)
        g == PanicGuard(u.w, fault)
    IN  [u EXCEPT
           !.w = g.w,
           !.escaped = g.escaped,
           !.fault = fault,
           !.faultAt = IF q.pc = "serve" THEN phase ELSE q.pc,
           !.pc = "done"]

\* ---------------------------------------------------------------- actions

Entry(r) ==
    /\ req[r].pc = "start"
    /\ req' = [req EXCEPT ![r] = viaProxy(req[r], config, canaryBucket)]
    /\ UNCHANGED <<config, canaryBucket>>

PreCheck(r) ==
    /\ req[r].pc = "precheck"
    /\ req' = [req EXCEPT ![r] = preCheck(req[r], canaryBucket)]
    /\ UNCHANGED <<config, canaryBucket>>

CallSidecar(r) ==
    /\ req[r].pc = "sidecar"
    /\ \E answer \in SidecarAnswers, fails \in BOOLEAN, at \in 0..Len(req[r].reqBody) :
          /\ ~fails => at = 0
          /\ req' = [req EXCEPT ![r] = sidecarStep(req[r], fails, at, answer)]
    /\ UNCHANGED <<config, canaryBucket>>

Decide(r) ==
    /\ req[r].pc = "decide"
    /\ LET d == decide(req[r], canaryBucket)
       IN  /\ req' = [req EXCEPT ![r] = d.q]
           /\ canaryBucket' = d.bucket
    /\ UNCHANGED config

Serve(r) ==
    /\ req[r].pc = "serve"
    /\ req' = [req EXCEPT ![r] = serve(req[r])]
    /\ UNCHANGED <<config, canaryBucket>>

Panic(r) ==
    /\ req[r].pc \in {"start", "precheck", "sidecar", "decide", "serve"}
    /\ \E phase \in Phases(req[r].pc) :
          req' = [req EXCEPT ![r] = panic(req[r], phase, req[r].panicValue)]
    /\ UNCHANGED <<config, canaryBucket>>

Next ==
    \/ \E r \in Reqs : Entry(r)
    \/ \E r \in Reqs : PreCheck(r)
    \/ \E r \in Reqs : CallSidecar(r)
    \/ \E r \in Reqs : Decide(r)
    \/ \E r \in Reqs : Serve(r)
    \/ \E r \in Reqs : Panic(r)

Spec == Init /\ [][Next]_vars

SpecOne == InitOne /\ [][Next]_vars

\* ----------------------------------------------------------------- claims

\* The request carries a valid X-Canary override.
ValidOverride(q) == q.xCanaryVal = "true" \/ q.xCanaryVal = "false"

Faulted(q) == q.fault # NoFault

\* The request was given to the canary (main) proxy.
ToCanary(q) == Contains(q.forwards, "canary")

ToMain(q) == Contains(q.forwards, "main")

\* The handler has chosen what serves the request.
Routed(q) == q.pc = "serve" \/ (q.pc = "done" /\ q.route # "none")

\* The handler returned without a fault.
Completed(q) == q.pc = "done" /\ ~Faulted(q)

\* No override, and the sidecar answered the canary status code.
CanaryDecided(q) ==
    /\ ~ValidOverride(q)
    /\ q.sidecarCalls = 1
    /\ ~q.sidecarAnswer.transportError
    /\ q.sidecarAnswer.code = StatusCodeCanary

\* C1: with a bucket of capacity N > 0, among the requests without override
\* for which the sidecar answers the canary code at most N are given to the
\* canary proxy, in every interleaving; each of them that is not admitted is
\* routed to main with a reason containing "limit reached", and so is every
\* request without override that the pre-check stops.
C1_AtMostCapacityToCanary ==
    IsCanaryLimited(canaryBucket) =>
      /\ Cardinality({r \in Reqs : ~ValidOverride(req[r]) /\ ToCanary(req[r])})
            <= config.RequestLimitCanary
      /\ Cardinality({r \in Reqs : ~ValidOverride(req[r]) /\ req[r].route = "canary"})
            <= config.RequestLimitCanary
      /\ \A r \in Reqs :
            /\ (CanaryDecided(req[r]) /\ Routed(req[r]) /\ ~req[r].admitted) =>
                  /\ req[r].route = "main"
                  /\ Contains(req[r].reason, "limit reached")
                  /\ ~ToCanary(req[r])
                  /\ Completed(req[r]) => req[r].forwards = <<"main">>
            /\ (~ValidOverride(req[r]) /\ Routed(req[r]) /\ req[r].route = "canary") =>
                  CanaryDecided(req[r]) /\ req[r].admitted

\* C1's case: the bucket's tokens are all given out, as many requests went
\* to canary, and one more that the sidecar sent to canary went to main
\* after the decision.
C1_Witness ==
    /\ IsCanaryLimited(canaryBucket)
    /\ Cardinality({r \in Reqs : ~ValidOverride(req[r]) /\ ToCanary(req[r])})
          = config.RequestLimitCanary
    /\ \E r \in Reqs :
          /\ CanaryDecided(req[r])
          /\ Completed(req[r])
          /\ req[r].forwards = <<"main">>
          /\ req[r].reason = ReasonCodeLimit(StatusCodeCanary)

\* C2: a request whose X-Canary value is exactly "true" ("false") is given
\* to the canary (main) proxy with the reason "Routed via X-Canary header
\* value: ...", the sidecar is never called for it and it takes no token,
\* whatever the bucket holds and whether or not a sidecar is configured.
C2_OverrideRoutes ==
    \A r \in Reqs :
        ValidOverride(req[r]) =>
          /\ req[r].pc \in {"start", "serve", "done"}
          /\ req[r].sidecarCalls = 0
          /\ ~req[r].admitted
          /\ req[r].forwards \in
                {<<>>, <<IF req[r].xCanaryVal = "true" THEN "canary" ELSE "main">>}
          /\ (req[r].pc = "serve" \/ Completed(req[r])) =>
                /\ req[r].route = IF req[r].xCanaryVal = "true" THEN "canary" ELSE "main"
                /\ req[r].reasonSet
                /\ req[r].reason =
                      <<"Routed via X-Canary header value: ", req[r].xCanaryVal>>
          /\ Completed(req[r]) =>
                req[r].forwards =
                    <<IF req[r].xCanaryVal = "true" THEN "canary" ELSE "main">>

\* C2's case: a request with X-Canary: true that started with the bucket
\* empty was given to canary, with the override's reason.
C2_Witness ==
    \E r \in Reqs :
        /\ req[r].xCanaryVal = "true"
        /\ req[r].startedExhausted
        /\ isSidecarProvided(config)
        /\ Completed(req[r])
        /\ req[r].forwards = <<"canary">>
        /\ req[r].reason = ReasonHeader("true")

\* The request with its X-Canary header taken away.
NoHeader(q) == [q EXCEPT !.xCanaryVal = ""]

\* C3: for a request whose X-Canary value is neither "true" nor "false"
\* the override is not applied: it is handled by the normal handler
\* (serveMain without a sidecar, else pre-check, sidecar and admission), and
\* every step of its handling does what it does for the same request without
\* the header, so its outcome is the same.
C3_InvalidHeaderIgnored ==
    \A r \in Reqs :
      LET q == req[r]
      IN  (q.pc # "absent" /\ ~ValidOverride(q)) =>
            /\ q.pc = "start" =>
                  NoHeader(viaProxy(q, config, canaryBucket))
                      = viaProxy(NoHeader(q), config, canaryBucket)
            /\ q.pc = "precheck" =>
                  NoHeader(preCheck(q, canaryBucket))
                      = preCheck(NoHeader(q), canaryBucket)
            /\ q.pc = "sidecar" =>
                  \A answer \in SidecarAnswers, fails \in BOOLEAN,
                     at \in 0..Len(q.reqBody) :
                      NoHeader(sidecarStep(q, fails, at, answer))
                          = sidecarStep(NoHeader(q), fails, at, answer)
            /\ q.pc = "decide" =>
                  /\ NoHeader(decide(q, canaryBucket).q)
                        = decide(NoHeader(q), canaryBucket).q
                  /\ decide(q, canaryBucket).bucket
                        = decide(NoHeader(q), canaryBucket).bucket
            /\ q.pc = "serve" => NoHeader(serve(q)) = serve(NoHeader(q))
            /\ q.pc \in {"start", "precheck", "sidecar", "decide", "serve"} =>
                  \A phase \in Phases(q.pc) :
                      NoHeader(panic(q, phase, q.panicValue))
                          = panic(NoHeader(q), phase, q.panicValue)
            /\ q.reasonSet => q.reason # ReasonHeader(q.xCanaryVal)
            /\ (~isSidecarProvided(config) /\ q.pc # "start") =>
                  /\ q.pc \in {"serve", "done"}
                  /\ q.sidecarCalls = 0
                  /\ Routed(q) => q.route = "main"
            /\ (isSidecarProvided(config) /\ Routed(q)) =>
                  /\ q.reasonSet
                  /\ q.reason = ReasonLimit \/ q.readFailed \/ q.sidecarCalls = 1

\* C3's case: a request with X-Canary: TRUE went through the sidecar and the
\* admission to canary, as one without the header does.
C3_Witness ==
    \E r \in Reqs :
        /\ req[r].xCanaryVal = "TRUE"
        /\ isSidecarProvided(config)
        /\ Completed(req[r])
        /\ req[r].sidecarCalls = 1
        /\ req[r].admitted
        /\ req[r].forwards = <<"canary">>
        /\ req[r].reason = ReasonCode(StatusCodeCanary)

\* The buckets of the configured capacity, whatever is left in them.
BucketStates ==
    IF IsCanaryLimited(canaryBucket)
    THEN {[canaryBucket EXCEPT !.availableTokens = n] :
             n \in 0..config.RequestLimitCanary}
    ELSE {canaryBucket}

\* C4: without a sidecar URL every request without a valid override is given
\* to the main proxy and never to canary, the sidecar is never called, and
\* the bucket is neither decremented nor consulted: it stays as NewServer
\* made it and the routing is the same whatever it holds.
C4_NoSidecarRoutesMain ==
    ~isSidecarProvided(config) =>
      /\ canaryBucket = NewCanaryBucket(config.RequestLimitCanary)
      /\ \A r \in Reqs :
            (req[r].pc # "absent" /\ ~ValidOverride(req[r])) =>
              /\ req[r].pc \in {"start", "serve", "done"}
              /\ req[r].sidecarCalls = 0
              /\ ~req[r].admitted
              /\ ~ToCanary(req[r])
              /\ Routed(req[r]) => req[r].route = "main"
              /\ Completed(req[r]) =>
                    req[r].forwards = <<"main">> /\ req[r].tagTarget = "main"
              /\ req[r].pc = "start" =>
                    \A b \in BucketStates :
                        [viaProxy(req[r], config, b) EXCEPT
                            !.startedExhausted = FALSE]
                        = [viaProxy(req[r], config, canaryBucket) EXCEPT
                            !.startedExhausted = FALSE]

\* C4's case: no sidecar, a bucket configured, a request without override
\* served by main.
C4_Witness ==
    /\ ~isSidecarProvided(config)
    /\ IsCanaryLimited(canaryBucket)
    /\ \E r \in Reqs :
          /\ req[r].xCanaryVal = ""
          /\ Completed(req[r])
          /\ req[r].forwards = <<"main">>
          /\ req[r].w.status = StatusOK

\* The sidecar call of the request met a transport failure or a 503 answer.
SidecarUnavailable(q) ==
    /\ q.sidecarCalls = 1
    /\ q.sidecarAnswer.transportError \/ q.sidecarAnswer.code = StatusSidecarError

\* The tokens taken from the bucket are those of the admitted requests.
TokensAccounted ==
    IsCanaryLimited(canaryBucket) =>
        canaryBucket.capacity - canaryBucket.availableTokens
            = Cardinality({r \in Reqs : req[r].admitted})

\* C5: when the sidecar call meets a transport failure (made 503 with the
\* error text by the ErrorHandler) or a 503 answer, callSidecar returns an
\* error carrying the recorded body, the request is routed to main with
\* that text as its reason and the client gets the main backend's answer;
\* no token is taken.
C5_SidecarUnavailableFallsBack ==
    /\ TokensAccounted
    /\ \A r \in Reqs :
          SidecarUnavailable(req[r]) =>
            /\ req[r].statusCode = StatusSidecarError
            /\ req[r].err.isErr
            /\ req[r].err.text = req[r].sidecarAnswer.text
            /\ ~req[r].admitted
            /\ ~ToCanary(req[r])
            /\ Routed(req[r]) =>
                  /\ req[r].route = "main"
                  /\ req[r].reasonSet
                  /\ req[r].reason = req[r].sidecarAnswer.text
            /\ Completed(req[r]) =>
                  /\ req[r].forwards = <<"main">>
                  /\ req[r].w.status = StatusOK
                  /\ req[r].w.body = ProxyResponse("main")

\* C5's case: the sidecar answered 503 with body "timeout" for one request
\* and could not be reached for another; both were served by main.
C5_Witness ==
    /\ \E r \in Reqs :
          /\ ~req[r].sidecarAnswer.transportError
          /\ req[r].sidecarAnswer.code = StatusSidecarError
          /\ Completed(req[r])
          /\ req[r].forwards = <<"main">>
          /\ Contains(req[r].reason, "timeout")
    /\ \E r \in Reqs :
          /\ req[r].sidecarAnswer.transportError
          /\ Completed(req[r])
          /\ req[r].forwards = <<"main">>
          /\ req[r].reason = <<"connection refused">>

\* C6: on every routing path the body the chosen proxy reads is the body
\* the client sent, and so are the copy the sidecar is sent and the body
\* restored on the request after callSidecar (the body being readable: a
\* failed read is ruled by C19).
C6_BodyPreserved ==
    \A r \in Reqs :
        ~req[r].readFailed =>
          /\ req[r].forwards # <<>> => req[r].backendBody = req[r].sent
          /\ req[r].sidecarCalls = 1 => req[r].sidecarGot = req[r].sent
          /\ req[r].pc \in {"start", "precheck", "sidecar", "decide", "serve"} =>
                req[r].reqBody = req[r].sent

\* C6's case: a two-byte body went to the sidecar and then to the canary
\* backend.
C6_Witness ==
    \E r \in Reqs :
        /\ req[r].sent = <<"x", "y">>
        /\ req[r].sidecarCalls = 1
        /\ req[r].sidecarGot = <<"x", "y">>
        /\ Completed(req[r])
        /\ req[r].forwards = <<"canary">>
        /\ req[r].backendBody = <<"x", "y">>

\* The request can take its next step.
CanStep(r) ==
    ENABLED (Entry(r) \/ PreCheck(r) \/ CallSidecar(r) \/ Decide(r) \/ Serve(r))

\* C7: a fault raised at any point of a request's pipeline is recovered by
\* the deferred guard: it does not reach the server's root handler, the
\* client gets a 500 whose body contains the fault's description, and every
\* other request can go on to its own outcome.
C7_PanicAnswers500 ==
    \A r \in Reqs :
        /\ Faulted(req[r]) =>
              /\ req[r].pc = "done"
              /\ ~req[r].escaped
              /\ req[r].w.status = StatusInternalServerError
              /\ Contains(req[r].w.body, req[r].fault.desc)
        /\ (~Faulted(req[r]) /\ req[r].pc \notin {"done", "absent"}) => CanStep(r)

Exhausted == IsCanaryLimited(canaryBucket) /\ canaryBucket.availableTokens = 0

\* C8: the bucket's counter stays between 0 and the configured capacity, it
\* never increases, and it changes only by an admission, which takes exactly
\* one token and only when one is left.
C8_QuotaBounded ==
    /\ [](IsCanaryLimited(canaryBucket) =>
            /\ canaryBucket.capacity = config.RequestLimitCanary
            /\ 0 <= canaryBucket.availableTokens
            /\ canaryBucket.availableTokens <= canaryBucket.capacity)
    /\ [][/\ canaryBucket'.availableTokens <= canaryBucket.availableTokens
          /\ \A r \in Reqs :
                (req'[r].admitted /\ ~req[r].admitted) =>
                    /\ canaryBucket.availableTokens > 0
                    /\ canaryBucket'.availableTokens
                          = canaryBucket.availableTokens - 1
          /\ canaryBucket' # canaryBucket =>
                \E r \in Reqs : req'[r].admitted /\ ~req[r].admitted
          /\ \A r \in Reqs : req[r].admitted => req'[r].admitted]_vars

\* C8's case: a token was taken by a request that then met a fault, and the
\* bucket stays one short.
C8_Witness ==
    /\ IsCanaryLimited(canaryBucket)
    /\ canaryBucket.availableTokens = canaryBucket.capacity - 1
    /\ \E r \in Reqs :
          /\ req[r].admitted
          /\ Faulted(req[r])
          /\ ~ToCanary(req[r])

\* C9 as stated: once the bucket is empty no request that starts afterwards
\* is given to the canary backend.
C9_NoCanaryAfterExhaustion ==
    \A r \in Reqs :
        req[r].startedExhausted => ~ToCanary(req[r]) /\ req[r].route # "canary"

\* C9, amended: once the bucket is empty it stays empty, and no request that
\* starts afterwards is given to the canary backend unless it carries the
\* override X-Canary: true.
C9_NoCanaryAfterExhaustionButOverride ==
    /\ [](\A r \in Reqs :
            (req[r].startedExhausted /\ req[r].xCanaryVal # "true") =>
                /\ ~ToCanary(req[r])
                /\ req[r].route # "canary"
                /\ ~req[r].admitted)
    /\ [][Exhausted => Exhausted']_vars

\* C9's case: a request without override that started with the bucket empty
\* was stopped by the pre-check and served by main.
C9_Witness ==
    \E r \in Reqs :
        /\ req[r].startedExhausted
        /\ req[r].xCanaryVal = ""
        /\ Completed(req[r])
        /\ req[r].sidecarCalls = 0
        /\ req[r].forwards = <<"main">>
        /\ req[r].reason = ReasonLimit

\* C10: every request that is given to the main or the canary proxy has had
\* setRoutingReason applied before, on every path.
C10_ReasonAlwaysSet ==
    \A r \in Reqs :
        (req[r].pc = "serve" \/ req[r].forwards # <<>>) => req[r].reasonSet

\* The three answers a client may get: the main backend's, the canary
\* backend's, the guard's 500 with the recovered message.
MainAnswer == ProxyServeHTTP(NewResponseWriter, "main")

CanaryAnswer == ProxyServeHTTP(NewResponseWriter, "canary")

GuardAnswer(fault) ==
    HttpError(NewResponseWriter, RecoveredMessage(fault), StatusInternalServerError)

\* C11: every request ends (no request that has not ended is ever unable to
\* go on) with exactly one of three answers to its client: the main
\* backend's, the canary backend's, or the guard's 500; and the 500 is given
\* only when a fault was raised in that request's pipeline.
C11_ThreeOutcomes ==
    \A r \in Reqs :
        /\ (req[r].pc \notin {"done", "absent"}) => CanStep(r)
        /\ req[r].pc = "done" =>
              \/ ~Faulted(req[r]) /\ req[r].w = MainAnswer
              \/ ~Faulted(req[r]) /\ req[r].w = CanaryAnswer
              \/ Faulted(req[r]) /\ req[r].w = GuardAnswer(req[r].fault)
        /\ req[r].w.status = StatusInternalServerError => Faulted(req[r])

\* The pieces of text a sidecar answer may carry.
SidecarTokens ==
    UNION {{a.text[i] : i \in 1..Len(a.text)} : a \in SidecarAnswers}

\* C12: the sidecar's answer goes to the in-memory recorder only.  Nothing is
\* written to the client before the dispatch; what the client gets is the
\* chosen proxy's answer, or the guard's message on top of whatever the proxy
\* had written, and no piece of the sidecar's body is in it; the sidecar's
\* status and body show only in the route and the reason.
C12_SidecarAnswerNotToClient ==
    \A r \in Reqs :
      LET q == req[r]
      IN  /\ \A i \in 1..Len(q.w.body) : q.w.body[i] \notin SidecarTokens
          /\ q.pc \in {"start", "precheck", "sidecar", "decide", "serve"} =>
                q.w = NewResponseWriter
          /\ Completed(q) =>
                /\ q.forwards = <<q.route>>
                /\ q.w = ProxyServeHTTP(NewResponseWriter, q.route)
          /\ Faulted(q) =>
                \/ q.w = GuardAnswer(q.fault)
                \/ /\ q.forwards = <<q.route>>
                   /\ q.w \in {HttpError(base, RecoveredMessage(q.fault),
                                         StatusInternalServerError) :
                                 base \in {ProxyWriteHeader(NewResponseWriter),
                                           ProxyServeHTTP(NewResponseWriter, q.route)}}

\* C12's case: the sidecar answered 503 with body "timeout", and the client
\* got the main backend's answer and nothing else.
C12_Witness ==
    \E r \in Reqs :
        /\ req[r].sidecarCalls = 1
        /\ req[r].sidecarAnswer.code = StatusSidecarError
        /\ req[r].sidecarAnswer.text = <<"timeout">>
        /\ req[r].pc = "done"
        /\ req[r].w = MainAnswer

\* C13: with RequestLimitCanary = 0 there is no bucket and the admission
\* always succeeds: every request without override for which the sidecar
\* answers the canary code is given to canary, however many there are, and
\* no request gets a "limit reached" reason.
C13_UnlimitedAlwaysAdmits ==
    config.RequestLimitCanary = 0 =>
      /\ ~IsCanaryLimited(canaryBucket)
      /\ canaryBucket = NilBucket
      /\ \A r \in Reqs :
            /\ ~req[r].startedExhausted
            /\ ~Contains(req[r].reason, "limit reached")
            /\ (CanaryDecided(req[r]) /\ Routed(req[r])) =>
                  /\ req[r].route = "canary"
                  /\ req[r].reason = ReasonCode(StatusCodeCanary)
            /\ (CanaryDecided(req[r]) /\ Completed(req[r])) =>
                  req[r].forwards = <<"canary">>

\* C13's case: no limit, and every one of the requests was sent to canary by
\* the sidecar and served by canary.
C13_Witness ==
    /\ config.RequestLimitCanary = 0
    /\ \A r \in Reqs :
          /\ CanaryDecided(req[r])
          /\ Completed(req[r])
          /\ req[r].forwards = <<"canary">>

\* C14: whatever routes the request (the override, the absence of a sidecar,
\* the pre-check, the sidecar's decision), the path the proxy is given is the
\* inbound path without the configured prefix, removed once from its start,
\* when the inbound path begins with the prefix, and the inbound path
\* otherwise.
C14_PathTrimmedOnce ==
    \A r \in Reqs :
        LET q      == req[r]
            prefix == config.TrimPrefix
            want   == IF HasPrefix(q.inPath, prefix)
                      THEN SubSeq(q.inPath, Len(prefix) + 1, Len(q.inPath))
                      ELSE q.inPath
        IN  /\ HasPrefix(q.inPath, prefix) => prefix \o want = q.inPath
            /\ q.pc \in {"precheck", "sidecar", "decide", "serve"} => q.urlPath = want
            /\ q.forwards # <<>> => q.backendPath = want
            /\ (q.forwards # <<>> /\ q.inPath = ApiPrefix \o <<"/", "v", "1">>
                  /\ prefix = ApiPrefix) => q.backendPath = <<"/", "v", "1">>
            /\ (q.forwards # <<>> /\ q.inPath = ApiPrefix \o ApiPrefix
                  /\ prefix = ApiPrefix) => q.backendPath = ApiPrefix

\* C14's case: a request for /api/v1 with the override header, on a server
\* that trims /api, served by canary with the path /v1.
C14_Witness ==
    \E r \in Reqs :
        /\ config.TrimPrefix = ApiPrefix
        /\ req[r].inPath = ApiPrefix \o <<"/", "v", "1">>
        /\ req[r].xCanaryVal = "true"
        /\ Completed(req[r])
        /\ req[r].forwards = <<"canary">>
        /\ req[r].backendPath = <<"/", "v", "1">>

\* C15: for a request without override, when a quota is configured and the
\* pre-check reads a counter <= 0, the request goes to main with the reason
\* "Canary limit reached", the sidecar is not called for it and its body is
\* not read; so a request whose pre-check comes after the counter reached 0
\* makes no sidecar call.
C15_PreCheckStops ==
    \A r \in Reqs :
        LET q == req[r]
        IN  /\ (q.pc = "precheck" /\ Exhausted) =>
                  /\ ~ValidOverride(q)
                  /\ preCheck(q, canaryBucket) =
                        [q EXCEPT !.reasonSet = TRUE, !.reason = ReasonLimit,
                                  !.pc = "serve", !.route = "main"]
                  /\ q.sidecarCalls = 0
                  /\ q.reqBody = q.sent
            /\ q.reason = ReasonLimit =>
                  /\ q.route = "main"
                  /\ q.sidecarCalls = 0
                  /\ q.sidecarGot = <<>>
                  /\ ~q.readFailed
                  /\ q.pc = "serve" => q.reqBody = q.sent
                  /\ q.forwards # <<>> => q.backendBody = q.sent
                  /\ Completed(q) => q.forwards = <<"main">>
            /\ (q.pc \in {"sidecar", "decide"} \/ q.sidecarCalls > 0 \/ q.readFailed) =>
                  /\ ~q.startedExhausted
                  /\ q.reason # ReasonLimit

\* C15's case: a request that entered the handler while a token was left,
\* was pre-checked after another request took it, and was served by main
\* with its whole body, without a sidecar call.
C15_Witness ==
    \E r \in Reqs :
        /\ ~req[r].startedExhausted
        /\ req[r].reason = ReasonLimit
        /\ Completed(req[r])
        /\ req[r].sidecarCalls = 0
        /\ req[r].forwards = <<"main">>
        /\ req[r].backendBody = req[r].sent

\* The sidecar was called for the request and answered, with a status code
\* other than the sidecar-error code.
SidecarAnswered(q) ==
    /\ q.sidecarCalls = 1
    /\ ~q.sidecarAnswer.transportError
    /\ q.sidecarAnswer.code # StatusSidecarError

\* C16: for a request whose sidecar call gives a result without error, the
\* main code routes to main with a reason that contains the code, the canary
\* code goes to the admission (canary when admitted or unlimited, main
\* otherwise), any other code routes to main with the reason for a non
\* standard code; and a request without override is given to canary only
\* through the canary code with an admission that succeeded or no limit.
C16_SidecarCodeRoutes ==
    \A r \in Reqs :
        LET q    == req[r]
            code == q.sidecarAnswer.code
        IN  /\ (q.pc = "decide" /\ SidecarAnswered(q)) =>
                  /\ ~q.err.isErr
                  /\ q.statusCode = code
            /\ (~ValidOverride(q) /\ SidecarAnswered(q) /\ Routed(q)) =>
                  /\ code = StatusCodeMain =>
                        /\ q.route = "main"
                        /\ q.reason = ReasonCode(code)
                        /\ Contains(q.reason, Itoa(code))
                        /\ ~q.admitted
                  /\ code = StatusCodeCanary =>
                        /\ q.route = "canary" <=>
                              (q.admitted \/ ~IsCanaryLimited(canaryBucket))
                        /\ q.route = "canary" => q.reason = ReasonCode(code)
                        /\ q.route = "main" => q.reason = ReasonCodeLimit(code)
                  /\ code \notin {StatusCodeMain, StatusCodeCanary} =>
                        /\ q.route = "main"
                        /\ q.reason = ReasonNonStandard(code)
                        /\ Contains(q.reason, Itoa(code))
                        /\ ~q.admitted
            /\ (~ValidOverride(q) /\ (q.route = "canary" \/ ToCanary(q))) =>
                  /\ CanaryDecided(q)
                  /\ IsCanaryLimited(canaryBucket) => q.admitted

\* C16's case: the sidecar answered a code that is neither the main nor the
\* canary code, and main served the request.
C16_Witness ==
    \E r \in Reqs :
        /\ ~ValidOverride(req[r])
        /\ SidecarAnswered(req[r])
        /\ req[r].sidecarAnswer.code \notin {StatusCodeMain, StatusCodeCanary}
        /\ Completed(req[r])
        /\ req[r].forwards = <<"main">>
        /\ req[r].reason = ReasonNonStandard(req[r].sidecarAnswer.code)

\* The step is the decision of request r, made on the canary code.
AdmissionStepOf(r) ==
    /\ req[r].pc = "decide"
    /\ ~ValidOverride(req[r])
    /\ ~req[r].err.isErr
    /\ req[r].statusCode = StatusCodeCanary
    /\ req'[r] # req[r]
    /\ \A o \in Reqs \ {r} : req'[o] = req[o]

\* C17: the bucket is changed only by the admission of a request whose
\* sidecar decision was the canary code, which takes one token: the override
\* (to canary as to main), the pre-check, the sidecar call, the decisions on
\* the main code, on an unavailable sidecar and on a non standard code, the
\* dispatch and a fault all leave it as it is, and the pre-check's reading
\* Available() gives the counter without changing it.
C17_OnlyAdmissionTouchesQuota ==
    /\ [][canaryBucket' # canaryBucket =>
            /\ IsCanaryLimited(canaryBucket)
            /\ canaryBucket' = [canaryBucket EXCEPT !.availableTokens = @ - 1]
            /\ \E r \in Reqs :
                  /\ AdmissionStepOf(r)
                  /\ req'[r].admitted
                  /\ req'[r].route = "canary"]_vars
    /\ [][\A r \in Reqs :
            (req'[r] # req[r] /\ canaryBucket' = canaryBucket) =>
                (req'[r].admitted <=> req[r].admitted)]_vars
    /\ [](/\ Available(canaryBucket) = canaryBucket.availableTokens
          /\ adjustAvailableTokens(canaryBucket) = canaryBucket
          /\ \A r \in Reqs :
                req[r].admitted =>
                    /\ CanaryDecided(req[r])
                    /\ req[r].reason = ReasonCode(StatusCodeCanary))

\* C17's case: one token is gone, taken by the one admitted request, while a
\* request with X-Canary: true was served by canary without taking any.
C17_Witness ==
    /\ IsCanaryLimited(canaryBucket)
    /\ canaryBucket.availableTokens = canaryBucket.capacity - 1
    /\ Cardinality({r \in Reqs : req[r].admitted}) = 1
    /\ \E r \in Reqs :
          /\ req[r].xCanaryVal = "true"
          /\ ~req[r].admitted
          /\ Completed(req[r])
          /\ req[r].forwards = <<"canary">>

\* The requests without override that the sidecar sent to canary and that
\* have passed the admission step.
ReachedAdmission == {r \in Reqs : CanaryDecided(req[r]) /\ Routed(req[r])}

\* C18: with a bucket of capacity N, of the k requests (no override, canary
\* code from the sidecar) that have made the admission step exactly
\* min(k, N) are admitted and routed to canary, and the others are routed to
\* main with the reason of a limit reached after the decision, in every
\* interleaving; with N = 1 and two such requests one goes to canary and the
\* other to main.
C18_AdmissionsSerialized ==
    IsCanaryLimited(canaryBucket) =>
      LET k == Cardinality(ReachedAdmission)
          n == canaryBucket.capacity
          admittedOnes == {r \in ReachedAdmission : req[r].admitted}
      IN  /\ Cardinality(admittedOnes) = Min(k, n)
          /\ Cardinality(ReachedAdmission \ admittedOnes) = k - Min(k, n)
          /\ canaryBucket.availableTokens = n - Min(k, n)
          /\ \A r \in Reqs : req[r].admitted => r \in ReachedAdmission
          /\ \A r \in admittedOnes :
                /\ req[r].route = "canary"
                /\ req[r].reason = ReasonCode(StatusCodeCanary)
                /\ Completed(req[r]) => req[r].forwards = <<"canary">>
          /\ \A r \in ReachedAdmission \ admittedOnes :
                /\ req[r].route = "main"
                /\ req[r].reason = ReasonCodeLimit(StatusCodeCanary)
                /\ Contains(req[r].reason, "limit reached")
                /\ Completed(req[r]) => req[r].forwards = <<"main">>

\* C18's case: a capacity smaller than the number of requests, every request
\* past the pre-check before any admission, all sent to canary by the
\* sidecar: as many as the capacity served by canary, the others by main.
C18_Witness ==
    /\ IsCanaryLimited(canaryBucket)
    /\ canaryBucket.capacity < NumReqs
    /\ \A r \in Reqs :
          /\ CanaryDecided(req[r])
          /\ ~req[r].startedExhausted
          /\ Completed(req[r])
    /\ Cardinality({r \in Reqs : req[r].forwards = <<"canary">>})
          = canaryBucket.capacity
    /\ Cardinality({r \in Reqs : req[r].forwards = <<"main">>})
          = NumReqs - canaryBucket.capacity

\* The bytes of data buffered by a read that fails after `at` bytes, or
\* reads to the end.
Buffered(data, fails, at) ==
    IF fails THEN SubSeq(data, 1, at) ELSE data

\* C19: on each of its exits (success, sidecar error, failed read of the
\* body) callSidecar leaves req.Body a reader over exactly the bytes buffered
\* from the original body; when the read fails it returns an error without
\* calling the sidecar, and the request is routed to main, which gets the
\* buffered bytes.
C19_BodyRestoredOnEveryExit ==
    \A r \in Reqs :
        LET q == req[r]
        IN  /\ q.pc = "sidecar" =>
                  \A answer \in SidecarAnswers, fails \in BOOLEAN,
                     at \in 0..Len(q.reqBody) :
                      LET res == callSidecar(q.reqBody, fails, at, answer)
                      IN  /\ res.reqBody = Buffered(q.reqBody, fails, at)
                          /\ sidecarStep(q, fails, at, answer).reqBody
                                = Buffered(q.sent, fails, at)
                          /\ fails =>
                                /\ ~res.called
                                /\ res.err.isErr
                                /\ res.statusCode = 0
                                /\ res.outBody = <<>>
                          /\ ~fails => res.called /\ res.outBody = q.reqBody
            /\ (q.sidecarCalls = 1 /\ q.pc \in {"decide", "serve"}) =>
                  q.reqBody = q.sent
            /\ q.readFailed =>
                  /\ q.sidecarCalls = 0
                  /\ q.sidecarGot = <<>>
                  /\ q.err.isErr
                  /\ q.statusCode = 0
                  /\ ~q.admitted
                  /\ ~ToCanary(q)
                  /\ \E n \in 0..Len(q.sent) :
                        /\ q.pc \in {"decide", "serve"} =>
                              q.reqBody = SubSeq(q.sent, 1, n)
                        /\ q.forwards # <<>> => q.backendBody = SubSeq(q.sent, 1, n)
                  /\ Routed(q) =>
                        /\ q.route = "main"
                        /\ q.reason = q.err.text
                  /\ Completed(q) => q.forwards = <<"main">>

\* C19's case: the read of a two-byte body failed after the first byte; the
\* sidecar was not called and main served the request with that byte.
C19_Witness ==
    \E r \in Reqs :
        /\ req[r].readFailed
        /\ req[r].sent = <<"x", "y">>
        /\ req[r].sidecarCalls = 0
        /\ Completed(req[r])
        /\ req[r].forwards = <<"main">>
        /\ req[r].backendBody = <<"x">>
        /\ req[r].reason = <<"read error">>

\* C20: no request is given to more than one proxy or to one proxy more
\* than once, none makes more than one sidecar call, and the target tag
\* recorded for a request names the proxy the request was given to: a
\* request that completed has one forward and the tag of that proxy, and a
\* request cut short by a fault never has a tag that names another proxy
\* than the one it reached.
C20_OneForwardOneCallTagMatches ==
    \A r \in Reqs :
        LET q == req[r]
        IN  /\ Len(q.forwards) <= 1
            /\ q.sidecarCalls <= 1
            /\ ~(ToMain(q) /\ ToCanary(q))
            /\ q.forwards # <<>> => q.forwards = <<q.route>>
            /\ q.tagTarget # "none" =>
                  /\ q.tagTarget \in {"main", "canary"}
                  /\ q.tagTarget = q.route
                  /\ q.forwards \in {<<>>, <<q.tagTarget>>}
                  /\ q.forwards = <<>> => Faulted(q)
            /\ Completed(q) =>
                  /\ q.forwards = <<q.tagTarget>>
                  /\ q.w = ProxyServeHTTP(NewResponseWriter, q.tagTarget)
            /\ q.pc \in {"start", "precheck", "sidecar", "decide", "serve"} =>
                  q.forwards = <<>> /\ q.tagTarget = "none"

\* C20's case: a request went through the sidecar call and the admission and
\* was served by canary, once, with the tag "canary", while a request with
\* X-Canary: false was served by main, once, with the tag "main".
C20_Witness ==
    /\ \E r \in Reqs :
          /\ req[r].sidecarCalls = 1
          /\ req[r].admitted
          /\ Completed(req[r])
          /\ req[r].forwards = <<"canary">>
          /\ req[r].tagTarget = "canary"
    /\ \E r \in Reqs :
          /\ req[r].xCanaryVal = "false"
          /\ req[r].sidecarCalls = 0
          /\ Completed(req[r])
          /\ req[r].forwards = <<"main">>
          /\ req[r].tagTarget = "main"

====
